---------------------------- MODULE Spec2Model ----------------------------
(***************************************************************************)
(* Raw HID LED protocol of the Work Louder Micro keymap                    *)
(* (firmware/raw_hid/keymap.c): the command handler raw_hid_receive, one   *)
(* action per case of its switch, and the render callback                  *)
(* rgb_matrix_indicators_user.  QMK runs both from the same main loop, so  *)
(* each handler is one atomic step.                                        *)
(*                                                                         *)
(* Calls that leave the keymap (raw_hid_send, reset_keyboard, the rgblight *)
(* and rgb_matrix drivers) are recorded, in call order, in `calls`.        *)
(***************************************************************************)
EXTENDS Integers, Sequences, FiniteSets, TLC

\* ---- program constants ------------------------------------------------
NUM_LEDS == 12

FRAME_LEN == 32

BLINK_PERIOD_DEFAULT == 500

BLINK_PERIOD_MIN == 50

MAGIC_1 == 176

MAGIC_2 == 7

RANGE_MAX == 9

\* report[0] of the frame the firmware sends on a key press
KEY_EVENT == 238

\* eeconfig_init_user: led_level = 1; process_record_user: wraps above 4
LED_LEVEL_DEFAULT == 1

LED_LEVEL_MAX == 4

\* ---- bounds of the model ----------------------------------------------
\* Callbacks (command frames handled and render ticks) along one behaviour.
MaxSteps == 5

\* ---- integer helpers (uint8_t / uint16_t arithmetic) ------------------
Byte == 0..255

U8(x) == x % 256

U16(x) == x % 65536

Pow2(n) == 2 ^ n

\* Bit i of m, as the C test (m & (1 << i)) reads it.
Bit(m, i) == (m \div Pow2(i)) % 2

RECURSIVE BitOr(_, _, _)
BitOr(a, b, n) ==
    IF n = 0 THEN 0
    ELSE (IF a % 2 = 1 \/ b % 2 = 1 THEN 1 ELSE 0)
         + 2 * BitOr(a \div 2, b \div 2, n - 1)

RECURSIVE BitAnd(_, _, _)
BitAnd(a, b, n) ==
    IF n = 0 THEN 0
    ELSE (IF a % 2 = 1 /\ b % 2 = 1 THEN 1 ELSE 0)
         + 2 * BitAnd(a \div 2, b \div 2, n - 1)

\* ~x converted to uint16_t.
Not16(x) == 65535 - U16(x)

\* ---- frames -----------------------------------------------------------
\* A 32-byte report whose first bytes are `prefix`, zero-padded.
Frame(prefix) ==
    [i \in 0..(FRAME_LEN - 1) |->
        IF i < Len(prefix) THEN prefix[i + 1] ELSE 0]

\* uint8_t response[32] = {0}; response[0] = cmd;
NewResponse(cmd) == Frame(<<cmd>>)

Black == <<0, 0, 0>>

BlackBuf == [i \in 0..(NUM_LEDS - 1) |-> Black]

VARIABLES
    direct_mode,    \* static bool direct_mode
    led_buf,        \* static uint8_t led_buf[NUM_LEDS][3]
    blink_mask,     \* static uint16_t blink_mask
    blink_period,   \* static uint16_t blink_period
    running,        \* FALSE once reset_keyboard() has left the firmware
    handler,        \* the callback that ran last ("boot" after power-on)
    data,           \* the frame the last raw_hid_receive was given
    calls,          \* the driver calls the last callback made, in order
    old,            \* the LED state the last callback started from
    tick,           \* what timer_read() returned in the last callback
    trip,           \* where the command stream stands in enter,M,exit,enter
    steps,          \* callbacks the behaviour still has room for
    led_level,      \* work_louder_config.led_level (a 3-bit field)
    key,            \* the key event the last process_record_user was given
    watch,          \* what the host has sent lately (see WatchNext)
    access          \* frame offsets read and led_buf indices written by
                    \* the last callback

vars == <<direct_mode, led_buf, blink_mask, blink_period, running,
          handler, data, calls, old, tick, trip, steps, led_level, key,
          watch, access>>

led_state ==
    [direct_mode  |-> direct_mode,
     led_buf      |-> led_buf,
     blink_mask   |-> blink_mask,
     blink_period |-> blink_period]

raw_hid_send(frame) == [fn |-> "raw_hid_send", frame |-> frame]

reset_keyboard == [fn |-> "reset_keyboard"]

\* The callback read no byte of a frame and wrote no entry of led_buf.
NoAccess == [rd |-> {}, wr |-> {}]

\* No key event: the last callback was not process_record_user.
NoKey == [keycode |-> "none", pressed |-> FALSE, row |-> 0, col |-> 0]

\* ---- the observer of what the host sent -----------------------------
\* What the host has sent lately, whatever the firmware made of it:
\*   again   the last command frame repeated the one before it
\*   filled  per LED index, the colour of the last set-one (0x01) for it
\*           since the last command of another opcode (<<>>: none)
\*   blinked the LED indices whose last set-blink-flag (0x07) since the
\*           most recent enter (0x05) had a non-zero enable byte
\*   before  what blinked was when the most recent enter arrived, kept
\*           while only set-blink-flag commands have followed that enter
NoColours == [i \in 0..(NUM_LEDS - 1) |-> <<>>]

WatchStart ==
    [again |-> FALSE, filled |-> NoColours, blinked |-> {}, before |-> {}]

WatchNext(w, d) ==
    [again  |-> trip # "fresh" /\ d = data,
     filled |-> IF d[0] # 1 THEN NoColours
                ELSE IF d[1] < NUM_LEDS
                     THEN [w.filled EXCEPT ![d[1]] = <<d[2], d[3], d[4]>>]
                     ELSE w.filled,
     blinked |-> CASE d[0] = 5 -> {}
                   [] d[0] = 7 /\ d[2] # 0 /\ d[1] < NUM_LEDS ->
                        w.blinked \cup {d[1]}
                   [] d[0] = 7 /\ d[2] = 0 -> w.blinked \ {d[1]}
                   [] OTHER -> w.blinked,
     before  |-> CASE d[0] = 5 -> w.blinked
                   [] d[0] = 7 -> w.before
                   [] OTHER    -> {}]

\* ---- power-on ---------------------------------------------------------
\* The static initialisers: direct_mode = false, led_buf zeroed (static
\* storage), blink_mask = 0, blink_period = 500.
boot_state ==
    [direct_mode  |-> FALSE,
     led_buf      |-> BlackBuf,
     blink_mask   |-> 0,
     blink_period |-> BLINK_PERIOD_DEFAULT]

Init ==
    /\ direct_mode = boot_state.direct_mode
    /\ led_buf = boot_state.led_buf
    /\ blink_mask = boot_state.blink_mask
    /\ blink_period = boot_state.blink_period
    /\ running = TRUE
    /\ handler = "boot"
    /\ data = Frame(<<>>)
    /\ calls = <<>>
    /\ old = boot_state
    /\ tick = 0
    /\ trip = "fresh"
    /\ steps = MaxSteps
    /\ led_level = LED_LEVEL_DEFAULT
    /\ key = NoKey
    /\ watch = WatchStart
    /\ access = NoAccess

\* The firmware starts again (re-plug, or the bootloader's exit) after a
\* reset_keyboard(): RAM is initialised as at the first power-on, and
\* matrix_init_user reads led_level back from the EEPROM, where every
\* change of it was stored.
PowerOn ==
    /\ ~running
    /\ running' = TRUE
    /\ direct_mode' = boot_state.direct_mode
    /\ led_buf' = boot_state.led_buf
    /\ blink_mask' = boot_state.blink_mask
    /\ blink_period' = boot_state.blink_period
    /\ handler' = "boot"
    /\ data' = Frame(<<>>)
    /\ calls' = <<>>
    /\ old' = boot_state
    /\ tick' = 0
    /\ trip' = "fresh"
    /\ key' = NoKey
    /\ watch' = WatchStart
    /\ access' = NoAccess
    /\ UNCHANGED <<steps, led_level>>

\* ---- the observer of the command stream -------------------------------
\* The mutation commands: set-one, set-range, set-all, set-blink-flag,
\* set-blink-period.
MutationCmds == {1, 2, 4, 7, 8}

\* Position of the command stream since power-on in the pattern
\* enter, M, exit, enter (M any sequence of mutation commands).
TripNext(tr, cmd) ==
    CASE cmd = 5 /\ tr = "fresh"              -> "entered"
      [] cmd = 5 /\ tr = "exited"             -> "reentered"
      [] cmd \in MutationCmds /\ tr = "entered" -> "entered"
      [] cmd = 3 /\ tr = "entered"            -> "exited"
      [] OTHER                                -> "off"

\* ---- raw_hid_receive --------------------------------------------------
\* The firmware runs and the behaviour has room for one more callback.
CanRun == running /\ steps > 0

\* uint8_t cmd = data[0]; switch (cmd): the case for opcode `cmd` is taken.
Selected(d, cmd) == CanRun /\ d[0] = cmd

\* uint8_t idx = start + i;
RangeIdx(start, i) == U8(start + i)

\* The for loop of case 0x02, from iteration i on.
RECURSIVE RangeLoop(_, _, _, _, _)
RangeLoop(buf, d, start, count, i) ==
    IF i < count
    THEN LET idx == RangeIdx(start, i) IN
         RangeLoop([buf EXCEPT ![idx] =
                        <<d[3 + i * 3], d[4 + i * 3], d[5 + i * 3]>>],
                   d, start, count, i + 1)
    ELSE buf

\* The condition of case 0x02 with start + count added in uint8_t.
RangeAccepted_wraps(start, count) ==
    direct_mode /\ U8(start + count) <= NUM_LEDS /\ count <= RANGE_MAX

\* The condition of case 0x02; start + count is computed in int.
RangeAccepted(start, count) ==
    direct_mode /\ start + count <= NUM_LEDS /\ count <= RANGE_MAX

\* The offsets of data[] that raw_hid_receive reads for frame d and the
\* indices of led_buf it writes, case by case (&& evaluates its right
\* operand only when the left one is true).
Touched(d) ==
    LET AllLeds == 0..(NUM_LEDS - 1)
        When(c, set) == IF c THEN set ELSE {}
    IN
    CASE d[0] = 1 ->
           [rd |-> {0, 1} \cup When(d[1] < NUM_LEDS /\ direct_mode, {2, 3, 4}),
            wr |-> When(d[1] < NUM_LEDS /\ direct_mode, {d[1]})]
      [] d[0] = 2 ->
           [rd |-> {0, 1, 2} \cup
                   When(RangeAccepted(d[1], d[2]),
                        UNION {{3 + i * 3, 4 + i * 3, 5 + i * 3} :
                                 i \in 0..(d[2] - 1)}),
            wr |-> When(RangeAccepted(d[1], d[2]),
                        {RangeIdx(d[1], i) : i \in 0..(d[2] - 1)})]
      [] d[0] = 4 ->
           [rd |-> {0} \cup When(direct_mode, {1, 2, 3}),
            wr |-> When(direct_mode, AllLeds)]
      [] d[0] = 5 -> [rd |-> {0}, wr |-> AllLeds]
      [] d[0] \in {6, 10} -> [rd |-> {0, 1, 2, 3}, wr |-> {}]
      [] d[0] = 7 ->
           [rd |-> {0, 1} \cup When(d[1] < NUM_LEDS, {2}), wr |-> {}]
      [] d[0] = 8 -> [rd |-> {0, 1, 2}, wr |-> {}]
      [] d[0] = 9 ->
           [rd |-> {0, 1} \cup When(d[1] = MAGIC_1, {2}), wr |-> {}]
      [] OTHER -> [rd |-> {0}, wr |-> {}]

\* The record of one call of raw_hid_receive: the frame it was given and
\* the LED state it started from.  No case touches work_louder_config.
Receive(d) ==
    /\ handler' = "raw_hid_receive"
    /\ data' = d
    /\ old' = led_state
    /\ tick' = 0
    /\ trip' = TripNext(trip, d[0])
    /\ steps' = steps - 1
    /\ key' = NoKey
    /\ watch' = WatchNext(watch, d)
    /\ access' = Touched(d)
    /\ UNCHANGED led_level

\* response[1] = status; ... raw_hid_send(response, sizeof(response)) at
\* the end of the handler.
Reply(d, status) ==
    <<raw_hid_send([NewResponse(d[0]) EXCEPT ![1] = status])>>

\* Set-one that stores the hue only and keeps the entry's s and v.
case_0x01_hue_only(d) ==
    /\ Selected(d, 1)
    /\ LET idx == d[1] IN
       led_buf' =
         IF idx < NUM_LEDS /\ direct_mode
         THEN [led_buf EXCEPT ![idx] = <<d[2], @[2], @[3]>>]
         ELSE led_buf
    /\ UNCHANGED <<direct_mode, blink_mask, blink_period, running>>
    /\ calls' = Reply(d, 1)
    /\ Receive(d)

\* case 0x01: set single LED
case_0x01(d) ==
    /\ Selected(d, 1)
    /\ LET idx == d[1] IN
       led_buf' =
         IF idx < NUM_LEDS /\ direct_mode
         THEN [led_buf EXCEPT ![idx] = <<d[2], d[3], d[4]>>]
         ELSE led_buf
    /\ UNCHANGED <<direct_mode, blink_mask, blink_period, running>>
    /\ calls' = Reply(d, 1)
    /\ Receive(d)

\* case 0x02: set LED range
case_0x02(d) ==
    /\ Selected(d, 2)
    /\ LET start == d[1]
           count == d[2]
       IN led_buf' =
            IF RangeAccepted(start, count)
            THEN RangeLoop(led_buf, d, start, count, 0)
            ELSE led_buf
    /\ UNCHANGED <<direct_mode, blink_mask, blink_period, running>>
    /\ calls' = Reply(d, 1)
    /\ Receive(d)

\* case 0x03 that only clears the blink mask and leaves direct mode on.
case_0x03_stays_direct(d) ==
    /\ Selected(d, 3)
    /\ direct_mode' = direct_mode
    /\ blink_mask' = 0
    /\ UNCHANGED <<led_buf, blink_period, running>>
    /\ calls' = Reply(d, 1)
    /\ Receive(d)

\* case 0x03: restore normal effect
case_0x03(d) ==
    /\ Selected(d, 3)
    /\ direct_mode' = FALSE
    /\ blink_mask' = 0
    /\ UNCHANGED <<led_buf, blink_period, running>>
    /\ calls' = Reply(d, 1)
    /\ Receive(d)

\* case 0x04: set all LEDs to the same colour
case_0x04(d) ==
    /\ Selected(d, 4)
    /\ led_buf' =
         IF direct_mode
         THEN [i \in 0..(NUM_LEDS - 1) |-> <<d[1], d[2], d[3]>>]
         ELSE led_buf
    /\ UNCHANGED <<direct_mode, blink_mask, blink_period, running>>
    /\ calls' = Reply(d, 1)
    /\ Receive(d)

\* case 0x05 without `blink_mask = 0`.
case_0x05_keeps_blink(d) ==
    /\ Selected(d, 5)
    /\ direct_mode' = TRUE
    /\ led_buf' = BlackBuf
    /\ UNCHANGED <<blink_mask, blink_period, running>>
    /\ calls' = <<raw_hid_send([NewResponse(d[0]) EXCEPT ![1] = 1,
                                                         ![2] = NUM_LEDS])>>
    /\ Receive(d)

\* case 0x05 without the memset of led_buf.
case_0x05_no_memset(d) ==
    /\ Selected(d, 5)
    /\ direct_mode' = TRUE
    /\ blink_mask' = 0
    /\ UNCHANGED <<led_buf, blink_period, running>>
    /\ calls' = <<raw_hid_send([NewResponse(d[0]) EXCEPT ![1] = 1,
                                                         ![2] = NUM_LEDS])>>
    /\ Receive(d)

\* case 0x05 that clears the low byte of blink_mask only.
case_0x05_clears_low_byte(d) ==
    /\ Selected(d, 5)
    /\ direct_mode' = TRUE
    /\ blink_mask' = (blink_mask \div 256) * 256
    /\ led_buf' = BlackBuf
    /\ UNCHANGED <<blink_period, running>>
    /\ calls' = <<raw_hid_send([NewResponse(d[0]) EXCEPT ![1] = 1,
                                                         ![2] = NUM_LEDS])>>
    /\ Receive(d)

\* case 0x05: enter direct mode
case_0x05(d) ==
    /\ Selected(d, 5)
    /\ direct_mode' = TRUE
    /\ blink_mask' = 0
    /\ led_buf' = BlackBuf
    /\ UNCHANGED <<blink_period, running>>
    /\ calls' = <<raw_hid_send([NewResponse(d[0]) EXCEPT ![1] = 1,
                                                         ![2] = NUM_LEDS])>>
    /\ Receive(d)

rgblight_mode_noeeprom(mode) ==
    [fn |-> "rgblight_mode_noeeprom", mode |-> mode]

rgblight_sethsv_noeeprom(h, s, v) ==
    [fn |-> "rgblight_sethsv_noeeprom", h |-> h, s |-> s, v |-> v]

\* Set-underglow that also fills the colour buffer, as case 0x04 does.
case_0x06_sets_all(d) ==
    /\ Selected(d, 6)
    /\ led_buf' = IF direct_mode
                  THEN [i \in 0..(NUM_LEDS - 1) |-> <<d[1], d[2], d[3]>>]
                  ELSE led_buf
    /\ UNCHANGED <<direct_mode, blink_mask, blink_period, running>>
    /\ calls' = <<rgblight_mode_noeeprom("RGBLIGHT_MODE_STATIC_LIGHT"),
                  rgblight_sethsv_noeeprom(d[1], d[2], d[3])>>
                 \o Reply(d, 1)
    /\ Receive(d)

\* case 0x06: set underglow colour
case_0x06(d) ==
    /\ Selected(d, 6)
    /\ UNCHANGED <<direct_mode, led_buf, blink_mask, blink_period, running>>
    /\ calls' = <<rgblight_mode_noeeprom("RGBLIGHT_MODE_STATIC_LIGHT"),
                  rgblight_sethsv_noeeprom(d[1], d[2], d[3])>>
                 \o Reply(d, 1)
    /\ Receive(d)

\* case 0x07 with `blink_mask = (1 << idx)` in place of `|=`.
case_0x07_assigns(d) ==
    /\ Selected(d, 7)
    /\ LET idx == d[1] IN
       blink_mask' =
         IF idx < NUM_LEDS
         THEN IF d[2] # 0
              THEN Pow2(idx)
              ELSE U16(BitAnd(blink_mask, Not16(Pow2(idx)), 16))
         ELSE blink_mask
    /\ UNCHANGED <<direct_mode, led_buf, blink_period, running>>
    /\ calls' = Reply(d, 1)
    /\ Receive(d)

\* case 0x07: set blink for one LED
case_0x07(d) ==
    /\ Selected(d, 7)
    /\ LET idx == d[1] IN
       blink_mask' =
         IF idx < NUM_LEDS
         THEN IF d[2] # 0
              THEN U16(BitOr(blink_mask, Pow2(idx), 16))
              ELSE U16(BitAnd(blink_mask, Not16(Pow2(idx)), 16))
         ELSE blink_mask
    /\ UNCHANGED <<direct_mode, led_buf, blink_period, running>>
    /\ calls' = Reply(d, 1)
    /\ Receive(d)

\* The period read from the low byte alone.
PeriodOf_low_byte(lo, hi) == lo

\* blink_period = data[1] | (data[2] << 8), stored in a uint16_t.  data[2]
\* is promoted to a 16-bit int; avr-gcc gives the shift its two's
\* complement bits, so the conversion to uint16_t keeps all 16 of them.
PeriodOf(lo, hi) == U16(BitOr(lo, U16(hi * 256), 16))

\* The period stored as sent, without the lower limit.
ClampPeriod_as_sent(p) == p

\* if (blink_period < 50) blink_period = 50;
ClampPeriod(p) == IF p < BLINK_PERIOD_MIN THEN BLINK_PERIOD_MIN ELSE p

\* case 0x08: set blink speed
case_0x08(d) ==
    /\ Selected(d, 8)
    /\ blink_period' = ClampPeriod(PeriodOf(d[1], d[2]))
    /\ UNCHANGED <<direct_mode, led_buf, blink_mask, running>>
    /\ calls' = Reply(d, 1)
    /\ Receive(d)

\* case 0x0A: underglow breathing effect
case_0x0A(d) ==
    /\ Selected(d, 10)
    /\ UNCHANGED <<direct_mode, led_buf, blink_mask, blink_period, running>>
    /\ calls' = <<rgblight_mode_noeeprom("RGBLIGHT_MODE_BREATHING"),
                  rgblight_sethsv_noeeprom(d[1], d[2], d[3])>>
                 \o Reply(d, 1)
    /\ Receive(d)

\* case 0x09 as if reset_keyboard() returned: the handler falls through to
\* response[1] = 0xFF and the final raw_hid_send.
BootloaderCalls_returns(d) ==
    IF d[1] = MAGIC_1 /\ d[2] = MAGIC_2
    THEN <<raw_hid_send([NewResponse(d[0]) EXCEPT ![1] = 1]),
           reset_keyboard>> \o Reply(d, 255)
    ELSE Reply(d, 255)

\* case 0x09 with reset_keyboard() called before the response is sent.
BootloaderCalls_reset_first(d) ==
    IF d[1] = MAGIC_1 /\ d[2] = MAGIC_2
    THEN <<reset_keyboard>>
    ELSE Reply(d, 255)

\* case 0x09 with `||` in place of `&&` in the magic test.
BootloaderCalls_either_byte(d) ==
    IF d[1] = MAGIC_1 \/ d[2] = MAGIC_2
    THEN <<raw_hid_send([NewResponse(d[0]) EXCEPT ![1] = 1]),
           reset_keyboard>>
    ELSE Reply(d, 255)

\* The calls of case 0x09.  With the magic pair the response is sent and
\* reset_keyboard() is called; QMK's reset_keyboard() ends in
\* bootloader_jump() and does not return, so the statements after it
\* (response[1] = 0xFF and the handler's final raw_hid_send) run only when
\* the magic pair is wrong.
BootloaderCalls(d) ==
    IF d[1] = MAGIC_1 /\ d[2] = MAGIC_2
    THEN <<raw_hid_send([NewResponse(d[0]) EXCEPT ![1] = 1]),
           reset_keyboard>>
    ELSE Reply(d, 255)

\* case 0x09: reboot into the bootloader
case_0x09(d) ==
    /\ Selected(d, 9)
    /\ UNCHANGED <<direct_mode, led_buf, blink_mask, blink_period>>
    /\ calls' = BootloaderCalls(d)
    /\ running' = (\A k \in 1..Len(calls') : calls'[k].fn # "reset_keyboard")
    /\ Receive(d)

\* A ping that also turns direct mode on, as case 0x05 does.
case_0xF0_enters(d) ==
    /\ Selected(d, 240)
    /\ direct_mode' = TRUE
    /\ UNCHANGED <<led_buf, blink_mask, blink_period, running>>
    /\ calls' = <<raw_hid_send([NewResponse(d[0]) EXCEPT ![1] = 1,
                                                         ![2] = NUM_LEDS])>>
    /\ Receive(d)

\* case 0xF0: ping
case_0xF0(d) ==
    /\ Selected(d, 240)
    /\ UNCHANGED <<direct_mode, led_buf, blink_mask, blink_period, running>>
    /\ calls' = <<raw_hid_send([NewResponse(d[0]) EXCEPT ![1] = 1,
                                                         ![2] = NUM_LEDS])>>
    /\ Receive(d)

KnownCmds == {1, 2, 3, 4, 5, 6, 7, 8, 9, 10, 240}

\* default answering success.
case_default_ack(d) ==
    /\ CanRun
    /\ d[0] \notin KnownCmds
    /\ UNCHANGED <<direct_mode, led_buf, blink_mask, blink_period, running>>
    /\ calls' = Reply(d, 1)
    /\ Receive(d)

\* default: unknown opcode
case_default(d) ==
    /\ CanRun
    /\ d[0] \notin KnownCmds
    /\ UNCHANGED <<direct_mode, led_buf, blink_mask, blink_period, running>>
    /\ calls' = Reply(d, 255)
    /\ Receive(d)

raw_hid_receive(d) ==
    \/ case_0x01(d)
    \/ case_0x02(d)
    \/ case_0x03(d)
    \/ case_0x04(d)
    \/ case_0x05(d)
    \/ case_0x06(d)
    \/ case_0x07(d)
    \/ case_0x08(d)
    \/ case_0x0A(d)
    \/ case_0x09(d)
    \/ case_0xF0(d)
    \/ case_default(d)

\* ---- rgb_matrix_indicators_user --------------------------------------
rgb_matrix_set_color(idx, r, g, b) ==
    [fn |-> "rgb_matrix_set_color", idx |-> idx, r |-> r, g |-> g, b |-> b]

\* set_led_rgb(idx, h, s, v): converts with QMK's hsv_to_rgb and hands the
\* result to rgb_matrix_set_color; recorded at its own call boundary.
set_led_rgb(idx, h, s, v) ==
    [fn |-> "set_led_rgb", idx |-> idx, h |-> h, s |-> s, v |-> v]

\* The render callback with the blink phases swapped: a blinking LED is
\* black in the first half of the period.
RenderCalls_swapped(st, t) ==
    IF st.direct_mode
    THEN LET blink_on ==
               (t % st.blink_period) >= (st.blink_period \div 2)
         IN [k \in 1..NUM_LEDS |->
               LET i == k - 1 IN
               IF Bit(st.blink_mask, i) = 1 /\ ~blink_on
               THEN rgb_matrix_set_color(i, 0, 0, 0)
               ELSE set_led_rgb(i, st.led_buf[i][1], st.led_buf[i][2],
                                st.led_buf[i][3])]
    ELSE <<>>

\* What one render callback writes, for timer value t, from LED state st.
RenderCalls(st, t) ==
    IF st.direct_mode
    THEN LET blink_on ==
               (t % st.blink_period) < (st.blink_period \div 2)
         IN [k \in 1..NUM_LEDS |->
               LET i == k - 1 IN
               IF Bit(st.blink_mask, i) = 1 /\ ~blink_on
               THEN rgb_matrix_set_color(i, 0, 0, 0)
               ELSE set_led_rgb(i, st.led_buf[i][1], st.led_buf[i][2],
                                st.led_buf[i][3])]
    ELSE <<>>

rgb_matrix_indicators_user(t) ==
    /\ CanRun
    /\ steps' = steps - 1
    /\ calls' = RenderCalls(led_state, t)
    /\ handler' = "rgb_matrix_indicators_user"
    /\ old' = led_state
    /\ tick' = t
    /\ key' = NoKey
    /\ access' = NoAccess
    /\ UNCHANGED <<direct_mode, led_buf, blink_mask, blink_period, running,
                   data, trip, led_level, watch>>

\* ---- process_record_user ----------------------------------------------
work_louder_micro_led_all_set(level) ==
    [fn |-> "work_louder_micro_led_all_set", level |-> level]

eeconfig_update_user(raw) == [fn |-> "eeconfig_update_user", raw |-> raw]

layer_state_set_kb == [fn |-> "layer_state_set_kb"]

\* The report sent on every press, whatever the mode.
KeyReport_any_mode(k) ==
    IF k.pressed
    THEN <<raw_hid_send(Frame(<<KEY_EVENT, k.row, k.col>>))>>
    ELSE <<>>

\* if (direct_mode && record->event.pressed): the report [0xEE, row, col]
KeyReport(k) ==
    IF direct_mode /\ k.pressed
    THEN <<raw_hid_send(Frame(<<KEY_EVENT, k.row, k.col>>))>>
    ELSE <<>>

\* work_louder_config.led_level++ on the 3-bit field, then back to 0 when
\* above 4.
NextLevel(level) ==
    LET up == (level + 1) % 8
    IN  IF up > LED_LEVEL_MAX THEN 0 ELSE up

\* case LED_LEVEL, on a press: the calls made with the new level.  The
\* union's other bits are 0, so raw is the level.
LevelCalls(level) ==
    <<work_louder_micro_led_all_set(U8((level * 255) \div 4)),
      eeconfig_update_user(level),
      layer_state_set_kb>>

process_record_user(k) ==
    /\ CanRun
    /\ steps' = steps - 1
    /\ IF k.keycode = "LED_LEVEL" /\ k.pressed
       THEN /\ led_level' = NextLevel(led_level)
            /\ calls' = KeyReport(k) \o LevelCalls(led_level')
       ELSE /\ led_level' = led_level
            /\ calls' = KeyReport(k)
    /\ handler' = "process_record_user"
    /\ key' = k
    /\ access' = NoAccess
    /\ old' = led_state
    /\ tick' = 0
    /\ UNCHANGED <<direct_mode, led_buf, blink_mask, blink_period, running,
                   data, trip, watch>>

\* ---- the inputs of the model ------------------------------------------
\* LED indices sent: the first, the last, the first out of bounds.
IdxBytes == {0, 11, 12}

Colours == {<<85, 255, 128>>, <<21, 200, 255>>}

\* The payload of a set-range frame: every offset carries its own value.
RangePayload == [k \in 1..(FRAME_LEN - 3) |-> 100 + k]

\* (index, colour) pairs of set-one frames: both colours at index 0, one
\* at the other indices.
OneArgs ==
    {a \in IdxBytes \X Colours : a[1] = 0 \/ a[2] = <<85, 255, 128>>}

\* (start, count) pairs: accepted ones, start + count = 13, count = 10,
\* and a sum that an 8-bit addition would wrap to a small value.
RangeArgs ==
    {<<3, 9>>, <<2, 0>>, <<4, 9>>, <<0, 10>>, <<250, 9>>}

\* (index, enable) pairs of set-blink-flag frames.
BlinkArgs == {<<0, 1>>, <<0, 0>>, <<11, 255>>, <<12, 1>>}

\* (low, high) bytes of a blink period: 49 and 65535.
PeriodBytes == {<<49, 0>>, <<255, 255>>}

MagicBytes ==
    {<<MAGIC_1, MAGIC_2>>, <<MAGIC_1, 0>>, <<0, MAGIC_2>>, <<0, 0>>,
     <<MAGIC_2, MAGIC_1>>}

\* An opcode outside the command set: 0xEE, the key event's.
UnknownCmds == {238}

Frames ==
    {Frame(<<1, a[1], a[2][1], a[2][2], a[2][3]>>) : a \in OneArgs}
    \cup {Frame(<<2, a[1], a[2]>> \o RangePayload) : a \in RangeArgs}
    \cup {Frame(<<3>>), Frame(<<5>>), Frame(<<240>>)}
    \cup {Frame(<<4, c[1], c[2], c[3]>>) : c \in Colours}
    \cup {Frame(<<6, 85, 255, 128>>), Frame(<<10, 85, 255, 128>>)}
    \cup {Frame(<<7, a[1], a[2]>>) : a \in BlinkArgs}
    \cup {Frame(<<8, p[1], p[2]>>) : p \in PeriodBytes}
    \cup {Frame(<<9, m[1], m[2]>>) : m \in MagicBytes \ {<<0, 0>>, <<MAGIC_2, MAGIC_1>>}}
    \cup {Frame(<<u>>) : u \in UnknownCmds}

\* timer_read() values seen by the render callback.
Times == {0, 250, 65535}

\* Key events: KC_MPLY at (0, 0) and LED_LEVEL at (3, 3) of layer 0,
\* pressed and released.
KeyEvents ==
    {[keycode |-> c[1], pressed |-> p, row |-> c[2], col |-> c[3]] :
        c \in {<<"KC_MPLY", 0, 0>>, <<"LED_LEVEL", 3, 3>>}, p \in BOOLEAN}

\* ---- the specification ------------------------------------------------
Command == \E d \in Frames : raw_hid_receive(d)

Render == \E t \in Times : rgb_matrix_indicators_user(t)

KeyEvent == \E k \in KeyEvents : process_record_user(k)

Next ==
    \/ Command
    \/ Render
    \/ KeyEvent
    \/ PowerOn

Spec == Init /\ [][Next]_vars

\* ---- one command from a chosen LED state -----------------------------
\* LED states the firmware reaches, used as starting points where a
\* specification enumerates a whole byte range in a single command:
\* power-on; enter; enter, set-all, two blink flags, period 50; and that
\* state after exit followed by set-blink-flag.
StartStates ==
    {boot_state,
     [boot_state EXCEPT !.direct_mode = TRUE],
     [direct_mode  |-> TRUE,
      led_buf      |-> [i \in 0..(NUM_LEDS - 1) |-> <<85, 255, 128>>],
      blink_mask   |-> 2049,
      blink_period |-> 50],
     [direct_mode  |-> FALSE,
      led_buf      |-> [i \in 0..(NUM_LEDS - 1) |-> <<85, 255, 128>>],
      blink_mask   |-> 1,
      blink_period |-> 50]}

\* The firmware in one of StartStates, with room for one more callback.
InitOne ==
    /\ \E st \in StartStates :
         /\ direct_mode = st.direct_mode
         /\ led_buf = st.led_buf
         /\ blink_mask = st.blink_mask
         /\ blink_period = st.blink_period
         /\ old = st
         /\ watch = [WatchStart EXCEPT
                       !.blinked = IF st.led_buf = BlackBuf THEN {}
                                   ELSE {0, NUM_LEDS - 1}]
    /\ running = TRUE
    /\ handler = "earlier"
    /\ data = Frame(<<>>)
    /\ calls = <<>>
    /\ tick = 0
    /\ trip = "off"
    /\ steps = 1
    /\ led_level = LED_LEVEL_DEFAULT
    /\ key = NoKey
    /\ access = NoAccess

\* Every opcode 0..255, with the payload bytes 1 and 2 from MagicBytes.
NextOpcodes ==
    /\ CanRun
    /\ \E op \in Byte, m \in MagicBytes :
         raw_hid_receive(Frame(<<op, m[1], m[2]>>))

SpecOpcodes == InitOne /\ [][NextOpcodes]_vars

\* Every 16-bit period: set-blink-period with all low and high bytes.
NextPeriod ==
    /\ CanRun
    /\ \E lo \in Byte, hi \in Byte : case_0x08(Frame(<<8, lo, hi>>))

SpecPeriod == InitOne /\ [][NextPeriod]_vars

\* ---- what the properties read -----------------------------------------
IsSend(c) == c.fn = "raw_hid_send"

\* The frames the last callback sent, in order.
Sent == SelectSeq(calls, IsSend)

\* The last callback was raw_hid_receive on a frame with opcode cmd.
Handled(cmd) == handler = "raw_hid_receive" /\ data[0] = cmd

ResetCalled == \E k \in 1..Len(calls) : calls[k].fn = "reset_keyboard"

\* ---- C1 ---------------------------------------------------------------
\* C1: after an enter-managed command (0x05), whatever the state before
\* it, the device is in Managed mode, each of the 12 colours is (0,0,0),
\* the blink mask is 0 and the one response is [0x05, 0x01, 12, 0...].
C1_EnterClears ==
    Handled(5) =>
        /\ direct_mode = TRUE
        /\ \A i \in 0..11 : led_buf[i] = <<0, 0, 0>>
        /\ blink_mask = 0
        /\ Sent = <<raw_hid_send(Frame(<<5, 1, 12>>))>>

\* An enter handled in Managed mode with a coloured buffer and a blink flag.
C1_Witness ==
    /\ Handled(5)
    /\ old.direct_mode
    /\ old.led_buf # BlackBuf
    /\ old.blink_mask # 0

\* ---- C2 ---------------------------------------------------------------
\* The LED state after a single enter on a freshly booted device.
fresh_enter == [boot_state EXCEPT !.direct_mode = TRUE]

C3_RangeRejected ==
    Handled(2) /\ old.direct_mode /\ data[1] + data[2] > 12 =>
        /\ Len(Sent) = 1
        /\ Sent[1].frame[1] = 255
        /\ led_buf = old.led_buf

\* ---- C4 ---------------------------------------------------------------
\* C4 (as claimed): in Native mode each of the five mutation commands is
\* answered with 0x01 and leaves colours, blink mask and blink period as
\* they were.
C4_NativeNoOp ==
    handler = "raw_hid_receive" /\ data[0] \in {1, 2, 4, 7, 8}
        /\ ~old.direct_mode =>
        /\ Len(Sent) = 1
        /\ Sent[1].frame[1] = 1
        /\ led_buf = old.led_buf
        /\ blink_mask = old.blink_mask
        /\ blink_period = old.blink_period

\* ---- C5 ---------------------------------------------------------------
\* C5: every command frame, whatever its opcode and payload, gets exactly
\* one response frame, of 32 bytes, with the opcode in byte 0 and 0x01 or
\* 0xFF in byte 1.
C5_OneResponse ==
    handler = "raw_hid_receive" =>
        /\ Len(Sent) = 1
        /\ DOMAIN Sent[1].frame = 0..31
        /\ Sent[1].frame[0] = data[0]
        /\ Sent[1].frame[1] \in {1, 255}

\* A reboot command with the magic pair was handled.
C5_Witness == Handled(9) /\ data[1] = 176 /\ data[2] = 7 /\ Len(Sent) = 1

\* ---- C6 ---------------------------------------------------------------
\* C6: a reboot command (0x09) with the magic pair (0xB0, 0x07) sends
\* [0x09, 0x01, 0...] and then calls reset_keyboard: no reset comes before
\* that response, and no failure response is sent.
C6_ResponseBeforeReset ==
    Handled(9) /\ data[1] = 176 /\ data[2] = 7 =>
        /\ ResetCalled
        /\ ~running
        /\ \A j \in 1..Len(calls) :
              calls[j].fn = "reset_keyboard" =>
                  \E i \in 1..(j - 1) :
                      calls[i] = raw_hid_send(Frame(<<9, 1>>))
        /\ \A i \in 1..Len(Sent) : Sent[i].frame[1] # 255

\* The reset was called by a reboot command handled in Managed mode.
C6_Witness == Handled(9) /\ ResetCalled /\ old.direct_mode

\* ---- C7 ---------------------------------------------------------------
\* C7: a reboot command (0x09) without the exact pair (0xB0, 0x07) gets a
\* failure response, does not reset, and leaves mode, colours, blink mask
\* and blink period as they were.
C7_WrongMagic ==
    Handled(9) /\ ~(data[1] = 176 /\ data[2] = 7) =>
        /\ Sent = <<raw_hid_send(Frame(<<9, 255>>))>>
        /\ ~ResetCalled
        /\ running
        /\ led_state = old

\* Only the first magic byte right, in Managed mode with a blink flag set.
C7_Witness ==
    /\ Handled(9)
    /\ data[1] = 176
    /\ data[2] = 0
    /\ old.direct_mode
    /\ old.blink_mask # 0

\* ---- C8 ---------------------------------------------------------------
\* C8: an opcode outside 0x01..0x0A and 0xF0 (0xEE included) gets
\* [opcode, 0xFF, 0...] and changes neither mode, colours, blink mask nor
\* blink period, in Native and in Managed mode.
C8_UnknownOpcode ==
    handler = "raw_hid_receive" /\ data[0] \notin (1..10) \cup {240} =>
        /\ Sent = <<raw_hid_send(Frame(<<data[0], 255>>))>>
        /\ ~ResetCalled
        /\ led_state = old

\* 0xEE handled in Managed mode with colours and blink flags set.
C8_Witness ==
    /\ Handled(238)
    /\ old.direct_mode
    /\ old.led_buf # BlackBuf
    /\ old.blink_mask # 0

\* ---- C9 ---------------------------------------------------------------
\* C9 (as claimed): a set-one (0x01) or set-blink-flag (0x07) with an
\* index >= 12 gets a response with 0xFF in byte 1 and changes no state.
\* Stated for Managed mode, where a set-one in bounds is applied.
C9_IndexRejected ==
    handler = "raw_hid_receive" /\ old.direct_mode
        /\ data[0] \in {1, 7} /\ data[1] >= 12 =>
        /\ Len(Sent) = 1
        /\ Sent[1].frame[1] = 255
        /\ led_state = old

\* ---- C10 --------------------------------------------------------------
\* C10: after set-blink-period (0x08) with p = lo + 256 * hi, the stored
\* blink period is 50 when p < 50 and p when p >= 50.
C10_PeriodClamp ==
    Handled(8) =>
        LET p == data[1] + 256 * data[2]
        IN  blink_period = IF p < 50 THEN 50 ELSE p

\* Period 49 sent to a device whose period was 500: stored as 50.
C10_Witness ==
    /\ Handled(8)
    /\ data[1] = 49
    /\ data[2] = 0
    /\ old.blink_period = 500
    /\ blink_period = 50

\* ---- C11 --------------------------------------------------------------
\* C11: a ping (0xF0) gets the one response [0xF0, 0x01, 12, 0, ...],
\* the same in Native and in Managed mode, and changes neither the mode,
\* the colours, the blink mask nor the blink period.
C11_Ping ==
    Handled(240) =>
        /\ Sent = <<raw_hid_send(Frame(<<240, 1, 12>>))>>
        /\ Len(calls) = 1
        /\ led_state = old
        /\ running

\* A ping handled in Managed mode with colours and blink flags set.
C11_Witness ==
    /\ Handled(240)
    /\ old.direct_mode
    /\ old.led_buf # BlackBuf
    /\ old.blink_mask # 0

\* ---- C12 --------------------------------------------------------------
\* C12: a key event makes the firmware send the frame [0xEE, row, col]
\* exactly when direct mode is on and the event is a press; in Native mode
\* (after an exit too) and on a release it sends nothing, and the key
\* handler changes no LED state.  The only other frame that starts with
\* 0xEE is the 0xFF response to a command frame with opcode 0xEE.
C12_KeyEvent ==
    /\ handler = "process_record_user" =>
         /\ Sent = IF old.direct_mode /\ key.pressed
                   THEN <<raw_hid_send(Frame(<<238, key.row, key.col>>))>>
                   ELSE <<>>
         /\ led_state = old
    /\ \A n \in 1..Len(Sent) :
         Sent[n].frame[0] = 238 /\ handler # "process_record_user" =>
             Handled(238) /\ Sent[n].frame[1] = 255

\* LED_LEVEL at (3, 3) pressed in Managed mode with colours set: the
\* report [0xEE, 3, 3] is sent before the level calls.
C12_Witness ==
    /\ handler = "process_record_user"
    /\ old.direct_mode
    /\ old.led_buf # BlackBuf
    /\ key.pressed
    /\ key.keycode = "LED_LEVEL"
    /\ Len(calls) = 4
    /\ calls[1] = raw_hid_send(Frame(<<238, 3, 3>>))

\* ---- sampling the render output every millisecond --------------------
\* Blink periods sampled, and the timer values at which a window starts:
\* inside the timer's range, and shortly before it wraps at 65536.
BlinkPeriods == {50, 51, 64}

BlinkStarts == {0, 17, 65500, 65535}

\* Managed mode, LEDs 0 and 11 blinking with a colour stored, the period
\* set by set-blink-period; room for one render tick per millisecond of
\* one period, the first of them at a timer value from BlinkStarts.
InitBlink ==
    /\ \E p \in BlinkPeriods, t \in BlinkStarts :
         /\ blink_period = p
         /\ data = Frame(<<8, p, 0>>)
         /\ steps = p
         /\ tick = U16(t - 1)
    /\ direct_mode = TRUE
    /\ led_buf = [i \in 0..(NUM_LEDS - 1) |-> <<85, 255, 128>>]
    /\ blink_mask = 2049
    /\ old = led_state
    /\ running = TRUE
    /\ handler = "earlier"
    /\ calls = <<>>
    /\ trip = "off"
    /\ led_level = LED_LEVEL_DEFAULT
    /\ key = NoKey
    /\ watch = [WatchStart EXCEPT !.blinked = {0, NUM_LEDS - 1}]
    /\ access = NoAccess

\* The render callback one millisecond after the last one: timer_read()
\* is a uint16_t and wraps from 65535 to 0.
SampleTick == rgb_matrix_indicators_user(U16(tick + 1))

SpecBlink == InitBlink /\ [][SampleTick]_vars

\* ---- C13 --------------------------------------------------------------
\* The render output for LED i at timer value t is the stored colour (on),
\* not black (off).
LedOn(i, t) == RenderCalls(led_state, t)[i + 1].fn = "set_led_rgb"

\* C13 (as claimed): for a blinking LED with period P, the render output
\* sampled at every millisecond of a window of P consecutive values of the
\* wrapping 16-bit timer has, read around the window, two phases (one on,
\* one off) whose lengths differ by at most one tick.
C13_BlinkPhases ==
    handler = "rgb_matrix_indicators_user" /\ direct_mode /\ steps = 0 =>
        \A i \in {j \in 0..(NUM_LEDS - 1) : Bit(blink_mask, j) = 1} :
            LET P     == blink_period
                w(k)  == U16(tick - (P - 1) + k)
                on    == Cardinality({k \in 0..(P - 1) : LedOn(i, w(k))})
                flips == Cardinality({k \in 0..(P - 1) :
                            LedOn(i, w(k)) # LedOn(i, w((k + 1) % P))})
            IN  /\ flips = 2
                /\ on - (P - on) \in {-1, 0, 1}

\* ---- C14 --------------------------------------------------------------
\* C14: set-underglow (0x06) and underglow-breathing (0x0A) are answered
\* with 0x01 in Native and in Managed mode, hand the mode and the colour
\* to the underglow driver only, and change neither the mode, the colour
\* buffer, the blink mask nor the blink period.
C14_Underglow ==
    Handled(6) \/ Handled(10) =>
        /\ Sent = <<raw_hid_send(Frame(<<data[0], 1>>))>>
        /\ Len(calls) = 3
        /\ calls[1].fn = "rgblight_mode_noeeprom"
        /\ calls[1].mode = IF data[0] = 6 THEN "RGBLIGHT_MODE_STATIC_LIGHT"
                                          ELSE "RGBLIGHT_MODE_BREATHING"
        /\ calls[2] = rgblight_sethsv_noeeprom(data[1], data[2], data[3])
        /\ led_state = old
        /\ running

\* Set-underglow handled in Managed mode, the colour buffer holding
\* another colour than the one sent, blink flags set.
C14_Witness ==
    /\ Handled(6)
    /\ old.direct_mode
    /\ old.blink_mask # 0
    /\ old.led_buf[0] # Black
    /\ old.led_buf[0] # <<data[1], data[2], data[3]>>

\* ---- set-all, then set-one for every LED ------------------------------
\* The colour set-one sends for index i.
FillColour(i) == IF i % 2 = 0 THEN <<85, 255, 128>> ELSE <<21, 200, 255>>

FillBuf == [i \in 0..(NUM_LEDS - 1) |-> FillColour(i)]

\* set-all with the colour of the odd indices, and set-one(i, FillColour(i))
\* for every i.
FillFrames ==
    {Frame(<<4, 21, 200, 255>>)}
    \cup {Frame(<<1, i, FillColour(i)[1], FillColour(i)[2], FillColour(i)[3]>>) :
            i \in 0..(NUM_LEDS - 1)}

\* One set-all, twelve set-ones, and one frame sent twice.
FillSteps == NUM_LEDS + 2

\* The firmware right after enter (0x05) from power-on.
InitFill ==
    /\ direct_mode = TRUE
    /\ led_buf = BlackBuf
    /\ blink_mask = 0
    /\ blink_period = BLINK_PERIOD_DEFAULT
    /\ running = TRUE
    /\ handler = "raw_hid_receive"
    /\ data = Frame(<<5>>)
    /\ calls = <<raw_hid_send(Frame(<<5, 1, NUM_LEDS>>))>>
    /\ old = boot_state
    /\ tick = 0
    /\ trip = "entered"
    /\ steps = FillSteps
    /\ led_level = LED_LEVEL_DEFAULT
    /\ key = NoKey
    /\ watch = WatchStart
    /\ access = NoAccess

Unfilled == {i \in 0..(NUM_LEDS - 1) : watch.filled[i] = <<>>}

\* The host sends set-all first or not at all, then set-one for the
\* indices in any order; it may send a frame a second time right after
\* the first while enough callbacks remain for the missing indices.
FillNext(d) ==
    \/ d = data /\ ~watch.again /\ steps > Cardinality(Unfilled)
    \/ d[0] = 4 /\ data[0] = 5
    \/ d[0] = 1 /\ d[1] \in Unfilled

NextFill ==
    /\ CanRun
    /\ \E d \in FillFrames :
         /\ FillNext(d)
         /\ case_0x01(d) \/ case_0x04(d)

SpecFill == InitFill /\ [][NextFill]_vars

\* ---- C15 --------------------------------------------------------------
\* C15: in Managed mode every index holds the colour of the last set-one
\* sent for it, whether or not a set-all came before; so once set-one
\* (i, c[i]) has been sent for every i, in any order, the buffer is c and
\* the render output is that of c, with or without the earlier set-all.
\* Sending a set-one or set-all frame a second time changes nothing.
C15_SetAllThenSetOne ==
    /\ direct_mode =>
         \A i \in (0..(NUM_LEDS - 1)) \ Unfilled :
             led_buf[i] = watch.filled[i]
    /\ direct_mode /\ Unfilled = {} =>
         /\ led_buf = FillBuf
         /\ \A t \in Times :
              RenderCalls(led_state, t) =
                RenderCalls([fresh_enter EXCEPT !.led_buf = FillBuf], t)
    /\ handler = "raw_hid_receive" /\ data[0] \in {1, 4} /\ watch.again =>
         led_state = old

\* The last missing set-one, for index 0, overwrites the colour that only
\* a set-all can have put there; the buffer is then c.
C15_Witness ==
    /\ Handled(1)
    /\ data[1] = 0
    /\ old.led_buf[0] = <<21, 200, 255>>
    /\ Unfilled = {}
    /\ led_buf = FillBuf

\* ---- C16 --------------------------------------------------------------
\* C16: a render tick in Managed mode writes every LED once: the stored
\* colour when the LED's blink flag is clear, or when it is set and
\* (time mod period) < (period div 2); black when the flag is set and the
\* time is in the other half of the period.  The render tick modifies
\* neither the colour buffer, the blink mask, the period nor the mode.
C16_RenderTick ==
    handler = "rgb_matrix_indicators_user" =>
        /\ led_state = old
        /\ direct_mode =>
             /\ Len(calls) = NUM_LEDS
             /\ \A i \in 0..(NUM_LEDS - 1) :
                  LET blinking == (blink_mask \div Pow2(i)) % 2 = 1
                      first_half ==
                          (tick % blink_period) < (blink_period \div 2)
                      c == led_buf[i]
                  IN  calls[i + 1] =
                        IF blinking /\ ~first_half
                        THEN rgb_matrix_set_color(i, 0, 0, 0)
                        ELSE set_led_rgb(i, c[1], c[2], c[3])

\* A render tick in the second half of the period: LED 0, blinking, is
\* written black although a colour is stored; LED 1, not blinking, gets
\* its stored colour.
C16_Witness ==
    /\ handler = "rgb_matrix_indicators_user"
    /\ direct_mode
    /\ led_buf[0] # Black
    /\ calls[1] = rgb_matrix_set_color(0, 0, 0, 0)
    /\ led_buf[1] # Black
    /\ calls[2].fn = "set_led_rgb"

\* ---- C17 --------------------------------------------------------------
\* C17: an exit (0x03) is answered with 0x01 and leaves direct mode off
\* and the blink mask 0, from Managed and from Native mode alike.  Direct
\* mode then stays off until an enter (0x05): no other command, render
\* tick or key event turns it on, and a render tick with direct mode off
\* writes no LED, whatever the colour buffer and the blink mask hold.
C17_Exit ==
    /\ Handled(3) =>
         /\ ~direct_mode
         /\ blink_mask = 0
         /\ Sent = <<raw_hid_send(Frame(<<3, 1>>))>>
    /\ handler = "rgb_matrix_indicators_user" /\ ~direct_mode =>
         calls = <<>>
    /\ direct_mode /\ ~old.direct_mode => Handled(5)

\* A render tick in Native mode after a Managed session was left: colours
\* are still stored, a set-blink-flag arrived after the exit, and the
\* render tick writes nothing.
C17_Witness ==
    /\ handler = "rgb_matrix_indicators_user"
    /\ ~direct_mode
    /\ led_buf # BlackBuf
    /\ data[0] = 7
    /\ blink_mask # 0
    /\ calls = <<>>

\* ---- C19 --------------------------------------------------------------
\* C19: in every reachable state the blink period is at least 50 (and a
\* uint16_t), so the render tick's `timer_read() % blink_period` never
\* has a zero divisor.
C19_PeriodAtLeastMin ==
    /\ blink_period \in 50..65535
    /\ old.blink_period \in 50..65535

\* A render tick in Managed mode with a blinking LED, after a
\* set-blink-period that sent 49: the divisor is 50.
C19_Witness ==
    /\ handler = "rgb_matrix_indicators_user"
    /\ direct_mode
    /\ blink_mask # 0
    /\ data = Frame(<<8, 49, 0>>)
    /\ blink_period = 50

\* ---- C20 --------------------------------------------------------------
\* C20: every index of led_buf a command writes is in 0..11 and every
\* byte of the frame it reads is at an offset in 0..31.  A set-range that
\* writes anything has count <= 9 and start + count <= 12 as integers (no
\* 8-bit wrap: start = 250, count = 9 writes nothing), writes exactly the
\* indices start..start+count-1 and reads no payload byte beyond offset
\* 2 + 3 * count <= 29.  Only bits 0..11 of the blink mask are ever set.
C20_Bounds ==
    /\ access.wr \subseteq 0..(NUM_LEDS - 1)
    /\ access.rd \subseteq 0..(FRAME_LEN - 1)
    /\ Handled(2) /\ (access.wr # {} \/ led_buf # old.led_buf) =>
         /\ data[2] <= 9
         /\ data[1] + data[2] <= 12
         /\ access.wr = data[1]..(data[1] + data[2] - 1)
         /\ \A o \in access.rd : o <= 2 + 3 * data[2] /\ o <= 29
    /\ Handled(2) /\ data[1] = 250 /\ data[2] = 9 =>
         /\ access.wr = {}
         /\ led_buf = old.led_buf
    /\ blink_mask < Pow2(NUM_LEDS)

\* A set-range with start 3 and count 9 in Managed mode: the last entry
\* written is index 11, from the payload bytes at offsets 27, 28 and 29.
C20_Witness ==
    /\ Handled(2)
    /\ old.direct_mode
    /\ data[1] = 3
    /\ data[2] = 9
    /\ 11 \in access.wr
    /\ 29 \in access.rd
    /\ led_buf[11] = <<data[27], data[28], data[29]>>
    /\ led_buf[11] # old.led_buf[11]

\* ---- C21 --------------------------------------------------------------
\* C21: in Managed mode every LED whose blink flag is set had it set by a
\* set-blink-flag with a non-zero enable byte that arrived after the most
\* recent enter (0x05); so at a render tick in Managed mode an LED is
\* written black in the second half of the period only if such a command
\* arrived, and a flag the host set before that enter (in Native mode or
\* in an earlier Managed session) has no effect on the output.
C21_BlinkSinceEnter ==
    direct_mode =>
        /\ \A i \in 0..(NUM_LEDS - 1) :
             Bit(blink_mask, i) = 1 => i \in watch.blinked
        /\ handler = "rgb_matrix_indicators_user" =>
             \A i \in (0..(NUM_LEDS - 1)) \ watch.blinked :
                 calls[i + 1] = set_led_rgb(i, led_buf[i][1], led_buf[i][2],
                                            led_buf[i][3])

\* A render tick in the second half of the period in Managed mode: LED 0
\* had its flag set before the most recent enter and not since, and gets
\* its stored colour; LED 11 had it set after the enter and is written
\* through the black call.
C21_Witness ==
    /\ handler = "rgb_matrix_indicators_user"
    /\ direct_mode
    /\ 0 \in watch.before
    /\ 0 \notin watch.blinked
    /\ calls[1].fn = "set_led_rgb"
    /\ 11 \in watch.blinked
    /\ calls[12] = rgb_matrix_set_color(11, 0, 0, 0)

\* ---- C22 --------------------------------------------------------------
\* C22: colours and blink flags are independent.  set-one (0x01),
\* set-range (0x02) and set-all (0x04) change neither the blink mask nor
\* the blink period, and set-one changes no colour but that of its index.
\* set-blink-flag (0x07) changes no colour, not the period and no bit of
\* the mask but bit i, which in Managed mode is set exactly when the
\* enable byte is non-zero.  set-blink-period (0x08) changes neither a
\* colour nor the mask.  None of the five changes the mode.
C22_Independent ==
    /\ handler = "raw_hid_receive" /\ data[0] \in MutationCmds =>
         direct_mode = old.direct_mode
    /\ handler = "raw_hid_receive" /\ data[0] \in {1, 2, 4} =>
         /\ blink_mask = old.blink_mask
         /\ blink_period = old.blink_period
    /\ Handled(1) =>
         /\ \A j \in (0..(NUM_LEDS - 1)) \ {data[1]} :
              led_buf[j] = old.led_buf[j]
         /\ old.direct_mode /\ data[1] < NUM_LEDS =>
              led_buf[data[1]] = <<data[2], data[3], data[4]>>
    /\ Handled(7) =>
         /\ led_buf = old.led_buf
         /\ blink_period = old.blink_period
         /\ \A j \in (0..15) \ {data[1]} :
              Bit(blink_mask, j) = Bit(old.blink_mask, j)
         /\ old.direct_mode /\ data[1] < NUM_LEDS =>
              (Bit(blink_mask, data[1]) = 1 <=> data[2] # 0)
    /\ Handled(8) =>
         /\ led_buf = old.led_buf
         /\ blink_mask = old.blink_mask

\* set-blink-flag(11, 0xFF) in Managed mode with colours stored and the
\* flag of LED 0 set: bit 11 becomes 1, bit 0 and the colours stay.
C22_Witness ==
    /\ Handled(7)
    /\ old.direct_mode
    /\ data[1] = 11
    /\ data[2] = 255
    /\ old.led_buf # BlackBuf
    /\ old.blink_mask = 1
    /\ blink_mask = 2049

=============================================================================
